---- MODULE Spec2Model ----
(***************************************************************************)
(* Model of the realtime presence / direct-message router of               *)
(* backend/src/lib/socket.js (initializeSocket).                           *)
(*                                                                         *)
(* One action per socket.io event handler.  The send_message handler is    *)
(* async: it suspends on Message.create, so it is split in the step that   *)
(* issues the write and the steps that resume it (resolved or rejected).   *)
(* Every other handler is synchronous and is one atomic action.            *)
(***************************************************************************)
EXTENDS Integers, Sequences, FiniteSets, TLC

\* ---- bounds ----
MaxConns == 2
MaxSends == 1

\* ---- value domains ----
Undefined == "undefined"

AllSocketIds == <<"s1", "s2", "s3", "s4", "s5">>
SocketIds == {AllSocketIds[i] : i \in 1..MaxConns}

UserIds == {"U1", "U2"}
Activities == {"Idle", "Playing"}
Contents == {"hi"}
\* an id of an earlier message a reply may refer to, or no reply
ReplyRefs == {Undefined, "m0"}

Truthy(v) == v # Undefined

\* ---- JavaScript Map, kept in insertion order as a sequence of <<key, value>> ----
MapIndex(m, k) ==
    IF \E i \in 1..Len(m) : m[i][1] = k
    THEN CHOOSE i \in 1..Len(m) : m[i][1] = k
    ELSE 0

MapHas(m, k) == MapIndex(m, k) # 0

MapGet(m, k) == IF MapHas(m, k) THEN m[MapIndex(m, k)][2] ELSE Undefined

\* variant: a key that is already present keeps its first value
MapSet_KeepFirst(m, k, v) ==
    IF MapHas(m, k) THEN m ELSE Append(m, <<k, v>>)

MapSet(m, k, v) ==
    IF MapHas(m, k)
    THEN [m EXCEPT ![MapIndex(m, k)] = <<k, v>>]
    ELSE Append(m, <<k, v>>)

MapDelete(m, k) ==
    IF MapHas(m, k)
    THEN [i \in 1..(Len(m) - 1) |-> IF i < MapIndex(m, k) THEN m[i] ELSE m[i + 1]]
    ELSE m

MapKeys(m) == [i \in 1..Len(m) |-> m[i][1]]

KeySet(m) == {m[i][1] : i \in 1..Len(m)}

\* ---- JavaScript Map whose iteration order no handler depends on, as a function ----
TableSet(t, k, v) == [x \in (DOMAIN t) \cup {k} |-> IF x = k THEN v ELSE t[x]]

TableDelete(t, k) == [x \in (DOMAIN t) \ {k} |-> t[x]]

EmptyTable == [x \in {} |-> Undefined]

\* ---- outbound emissions ----
\* io.emit(ev, data): to every connected socket
IoEmit(ev, data) == [via |-> "io", room |-> Undefined, ev |-> ev, data |-> data]
\* io.to(socketId).emit(ev, data): to the room of one socket id
IoToEmit(socketId, ev, data) == [via |-> "to", room |-> socketId, ev |-> ev, data |-> data]
\* socket.emit(ev, data): to the socket whose handler is running
SocketEmit(socket, ev, data) == [via |-> "socket", room |-> socket, ev |-> ev, data |-> data]

VARIABLES
    status,          \* socket id -> "new" | "open" | "closed"
    auth,            \* socket id -> socket.handshake.auth.userId
    boundAs,         \* socket id -> identity of its last user_connected (history)
    userSockets,     \* Map userId -> socket id, in insertion order
    userActivities,  \* Map userId -> activity (a function on its keys)
    pending,         \* send_message handlers suspended on Message.create
    created,         \* number of Message.create calls made
    stored,          \* messages persisted by Message.create
    out,             \* emissions of the last handler step, in order
    last             \* the inbound event the last step handled

vars == <<status, auth, boundAs, userSockets, userActivities, pending, created, stored, out, last>>

Init ==
    /\ status = [s \in SocketIds |-> "new"]
    /\ auth = [s \in SocketIds |-> Undefined]
    /\ boundAs = [s \in SocketIds |-> Undefined]
    /\ userSockets = <<>>
    /\ userActivities = EmptyTable
    /\ pending = {}
    /\ created = 0
    /\ stored = {}
    /\ out = <<>>
    /\ last = [ev |-> "init", socket |-> Undefined, data |-> Undefined]

\* history kept with the event record: the label userId had before the handler ran
LabelOf(userId) ==
    IF userId \in DOMAIN userActivities THEN userActivities[userId] ELSE Undefined

\* history kept with the event record: the event handled just before was the
\* same event with the same payload
RepeatsLast(ev, data) == last.ev = ev /\ "threw" \notin DOMAIN last /\ last.data = data

\* socket.io gives every new connection a fresh id: the first id not used yet
NextSocketId ==
    AllSocketIds[CHOOSE i \in 1..MaxConns :
                    /\ status[AllSocketIds[i]] = "new"
                    /\ \A j \in 1..(i - 1) : status[AllSocketIds[j]] # "new"]

\* io.on("connection", (socket) => ...): a client opens a connection; the
\* handshake auth payload is whatever the client sent.
Connection(socket, handshakeUserId) ==
    /\ status[socket] = "new"
    /\ socket = NextSocketId
    /\ status' = [status EXCEPT ![socket] = "open"]
    /\ auth' = [auth EXCEPT ![socket] = handshakeUserId]
    /\ out' = <<>>
    /\ last' = [ev |-> "connection", socket |-> socket, data |-> handshakeUserId]
    /\ UNCHANGED <<boundAs, userSockets, userActivities, pending, created, stored>>

\* variant: a label that is already set survives the bind
UserConnected_KeepLabel(socket, userId) ==
    /\ status[socket] = "open"
    /\ auth' = [auth EXCEPT ![socket] = userId]
    /\ boundAs' = [boundAs EXCEPT ![socket] = userId]
    /\ userSockets' = MapSet(userSockets, userId, socket)
    /\ userActivities' = IF userId \in DOMAIN userActivities
                         THEN userActivities
                         ELSE TableSet(userActivities, userId, "Idle")
    /\ out' = << IoEmit("user_connected", userId),
                 SocketEmit(socket, "users_online", MapKeys(userSockets')),
                 IoEmit("activities", userActivities') >>
    /\ last' = [ev |-> "user_connected", socket |-> socket, data |-> userId,
                before |-> LabelOf(userId)]
    /\ UNCHANGED <<status, pending, created, stored>>

\* variant: the users_online reply is built before the new entry is stored
UserConnected_ReplyBeforeBind(socket, userId) ==
    /\ status[socket] = "open"
    /\ auth' = [auth EXCEPT ![socket] = userId]
    /\ boundAs' = [boundAs EXCEPT ![socket] = userId]
    /\ userSockets' = MapSet(userSockets, userId, socket)
    /\ userActivities' = TableSet(userActivities, userId, "Idle")
    /\ out' = << IoEmit("user_connected", userId),
                 SocketEmit(socket, "users_online", MapKeys(userSockets)),
                 IoEmit("activities", userActivities') >>
    /\ last' = [ev |-> "user_connected", socket |-> socket, data |-> userId,
                before |-> LabelOf(userId)]
    /\ UNCHANGED <<status, pending, created, stored>>

\* socket.on("user_connected", (userId) => ...)
UserConnected(socket, userId) ==
    /\ status[socket] = "open"
    /\ auth' = [auth EXCEPT ![socket] = userId]
    /\ boundAs' = [boundAs EXCEPT ![socket] = userId]
    /\ userSockets' = MapSet(userSockets, userId, socket)
    /\ userActivities' = TableSet(userActivities, userId, "Idle")
    /\ out' = << IoEmit("user_connected", userId),
                 SocketEmit(socket, "users_online", MapKeys(userSockets')),
                 IoEmit("activities", userActivities') >>
    /\ last' = [ev |-> "user_connected", socket |-> socket, data |-> userId,
                before |-> LabelOf(userId)]
    /\ UNCHANGED <<status, pending, created, stored>>

\* variant: a label equal to the stored one is not broadcast again
UpdateActivity_Deduplicated(socket, data) ==
    /\ status[socket] = "open"
    /\ userActivities' = TableSet(userActivities, data.userId, data.activity)
    /\ out' = IF LabelOf(data.userId) = data.activity
              THEN << >>
              ELSE << IoEmit("activity_updated", [userId |-> data.userId, activity |-> data.activity]) >>
    /\ last' = [ev |-> "update_activity", socket |-> socket, data |-> data,
                repeat |-> RepeatsLast("update_activity", data)]
    /\ UNCHANGED <<status, auth, boundAs, userSockets, pending, created, stored>>

\* socket.on("update_activity", ({ userId, activity }) => ...)
UpdateActivity(socket, data) ==
    /\ status[socket] = "open"
    /\ userActivities' = TableSet(userActivities, data.userId, data.activity)
    /\ out' = << IoEmit("activity_updated", [userId |-> data.userId, activity |-> data.activity]) >>
    /\ last' = [ev |-> "update_activity", socket |-> socket, data |-> data,
                repeat |-> RepeatsLast("update_activity", data)]
    /\ UNCHANGED <<status, auth, boundAs, userSockets, pending, created, stored>>

\* socket.on("profile_updated", (updatedUser) => ...)
ProfileUpdated(socket, updatedUser) ==
    /\ status[socket] = "open"
    /\ out' = << IoEmit("profile_updated", updatedUser) >>
    /\ last' = [ev |-> "profile_updated", socket |-> socket, data |-> updatedUser]
    /\ UNCHANGED <<status, auth, boundAs, userSockets, userActivities, pending, created, stored>>

\* variant: the notification is broadcast instead of sent to the target's room
DirectedEmit_Broadcast(targetUserId, ev, payload) ==
    IF Truthy(MapGet(userSockets, targetUserId))
    THEN << IoEmit(ev, payload) >>
    ELSE << >>

\* the body shared by the three follow handlers that resolve their target from
\* a payload field: look the target up and emit the reshaped payload to it
DirectedEmit(targetUserId, ev, payload) ==
    IF Truthy(MapGet(userSockets, targetUserId))
    THEN << IoToEmit(MapGet(userSockets, targetUserId), ev, payload) >>
    ELSE << >>

\* socket.on("follow_request", (data) => ...)
FollowRequest(socket, data) ==
    /\ status[socket] = "open"
    /\ out' = DirectedEmit(data.targetUserId, "follow_request",
                  [requesterId |-> data.requesterId,
                   requesterName |-> data.requesterName,
                   requesterImageUrl |-> data.requesterImageUrl])
    /\ last' = [ev |-> "follow_request", socket |-> socket, data |-> data]
    /\ UNCHANGED <<status, auth, boundAs, userSockets, userActivities, pending, created, stored>>

\* socket.on("follow_accepted", (data) => ...)
FollowAccepted(socket, data) ==
    /\ status[socket] = "open"
    /\ out' = DirectedEmit(data.requesterId, "follow_accepted",
                  [accepterId |-> data.accepterId,
                   accepterName |-> data.accepterName,
                   accepterImageUrl |-> data.accepterImageUrl])
    /\ last' = [ev |-> "follow_accepted", socket |-> socket, data |-> data]
    /\ UNCHANGED <<status, auth, boundAs, userSockets, userActivities, pending, created, stored>>

\* socket.on("follow_back_request", (data) => ...)
FollowBackRequest(socket, data) ==
    /\ status[socket] = "open"
    /\ out' = DirectedEmit(data.targetUserId, "follow_back_request",
                  [requesterId |-> data.requesterId,
                   requesterName |-> data.requesterName,
                   requesterImageUrl |-> data.requesterImageUrl])
    /\ last' = [ev |-> "follow_back_request", socket |-> socket, data |-> data]
    /\ UNCHANGED <<status, auth, boundAs, userSockets, userActivities, pending, created, stored>>

\* socket.on("follow_back_available", (data) => ...): the target is the
\* identity kept in the sending socket's handshake auth
FollowBackAvailable(socket, data) ==
    /\ status[socket] = "open"
    /\ out' = DirectedEmit(auth[socket], "follow_back_available",
                  [userId |-> data.userId,
                   userName |-> data.userName,
                   userImageUrl |-> data.userImageUrl])
    /\ last' = [ev |-> "follow_back_available", socket |-> socket, data |-> data]
    /\ UNCHANGED <<status, auth, boundAs, userSockets, userActivities, pending, created, stored>>

\* the handlers that read a field of their payload outside any try block:
\* ({ userId, activity }) => ..., updatedUser.clerkId, const { ... } = data
MissingPayloadEvents ==
    {"update_activity", "profile_updated", "follow_request", "follow_accepted",
     "follow_back_request", "follow_back_available"}

\* an exception that leaves a handler: nothing in initializeSocket catches it
Uncaught(error) == [via |-> "throw", room |-> Undefined, ev |-> "uncaughtException", data |-> error]

\* one of these events arrives without a payload: destructuring undefined (or
\* reading a property of it) throws a TypeError before the handler does
\* anything else. The exception is uncaught: the host process either survives
\* it (a process-level handler installed outside this file) or exits, which
\* closes every connection and loses the in-memory maps and suspended sends.
MissingPayload(socket, ev, exits) ==
    /\ status[socket] = "open"
    /\ ev \in MissingPayloadEvents
    /\ out' = << Uncaught("TypeError") >>
    /\ last' = [ev |-> ev, socket |-> socket, data |-> Undefined, threw |-> "TypeError"]
    /\ IF exits
       THEN /\ status' = [s \in SocketIds |-> IF status[s] = "open" THEN "closed" ELSE status[s]]
            /\ userSockets' = << >>
            /\ userActivities' = EmptyTable
            /\ pending' = {}
       ELSE UNCHANGED <<status, userSockets, userActivities, pending>>
    /\ UNCHANGED <<auth, boundAs, created, stored>>

\* Message.create(fields): the document the storage collaborator persists,
\* with a server-assigned id; a field that is not passed is absent
MessageCreate(id, fields) ==
    [_id |-> id,
     senderId |-> fields.senderId,
     receiverId |-> fields.receiverId,
     content |-> fields.content,
     replyTo |-> IF "replyTo" \in DOMAIN fields THEN fields.replyTo ELSE Undefined]

\* const { senderId, receiverId, content } = data: the argument of the write
CreateFields(data) ==
    [senderId |-> data.senderId, receiverId |-> data.receiverId, content |-> data.content]

\* socket.on("send_message", async (data) => ...) up to the await; the
\* suspended handler keeps its socket and its payload
SendMessage(socket, data) ==
    /\ status[socket] = "open"
    /\ created < MaxSends
    /\ created' = created + 1
    /\ pending' = pending \cup
           {[id |-> created + 1, socket |-> socket, fields |-> CreateFields(data), data |-> data]}
    /\ out' = << >>
    /\ last' = [ev |-> "send_message", socket |-> socket, data |-> data]
    /\ UNCHANGED <<status, auth, boundAs, userSockets, userActivities, stored>>

\* the same step, with history kept in the suspended handler's record: atIssue
\* is the socket the receiver was registered on when the send was issued
SendMessageTracked(socket, data) ==
    /\ status[socket] = "open"
    /\ created < MaxSends
    /\ created' = created + 1
    /\ pending' = pending \cup
           {[id |-> created + 1, socket |-> socket, fields |-> CreateFields(data), data |-> data,
             atIssue |-> MapGet(userSockets, data.receiverId)]}
    /\ out' = << >>
    /\ last' = [ev |-> "send_message", socket |-> socket, data |-> data]
    /\ UNCHANGED <<status, auth, boundAs, userSockets, userActivities, stored>>

\* variant: the receiver's socket is the one found when the send was issued
SendMessageResolved_AtIssue(p) ==
    /\ p \in pending
    /\ pending' = pending \ {p}
    /\ stored' = stored \cup {MessageCreate(p.id, p.fields)}
    /\ out' = (IF Truthy(p.atIssue)
               THEN << IoToEmit(p.atIssue, "receive_message", MessageCreate(p.id, p.fields)) >>
               ELSE << >>)
              \o << SocketEmit(p.socket, "message_sent", MessageCreate(p.id, p.fields)) >>
    /\ last' = [ev |-> "send_message:resolved", socket |-> p.socket, data |-> p]
    /\ UNCHANGED <<status, auth, boundAs, userSockets, userActivities, created>>

\* variant: the acknowledgment goes to the socket registered for senderId
SendMessageResolved_AckToSenderId(p) ==
    /\ p \in pending
    /\ pending' = pending \ {p}
    /\ stored' = stored \cup {MessageCreate(p.id, p.fields)}
    /\ out' = (IF Truthy(MapGet(userSockets, p.fields.receiverId))
               THEN << IoToEmit(MapGet(userSockets, p.fields.receiverId),
                                "receive_message", MessageCreate(p.id, p.fields)) >>
               ELSE << >>)
              \o (IF Truthy(MapGet(userSockets, p.fields.senderId))
                  THEN << IoToEmit(MapGet(userSockets, p.fields.senderId),
                                   "message_sent", MessageCreate(p.id, p.fields)) >>
                  ELSE << >>)
    /\ last' = [ev |-> "send_message:resolved", socket |-> p.socket, data |-> p]
    /\ UNCHANGED <<status, auth, boundAs, userSockets, userActivities, created>>

\* variant: the receiver's socket is looked up under senderId
SendMessageResolved_LookupSender(p) ==
    /\ p \in pending
    /\ pending' = pending \ {p}
    /\ stored' = stored \cup {MessageCreate(p.id, p.fields)}
    /\ out' = (IF Truthy(MapGet(userSockets, p.fields.senderId))
               THEN << IoToEmit(MapGet(userSockets, p.fields.senderId),
                                "receive_message", MessageCreate(p.id, p.fields)) >>
               ELSE << >>)
              \o << SocketEmit(p.socket, "message_sent", MessageCreate(p.id, p.fields)) >>
    /\ last' = [ev |-> "send_message:resolved", socket |-> p.socket, data |-> p]
    /\ UNCHANGED <<status, auth, boundAs, userSockets, userActivities, created>>

\* the send_message handler resumed after Message.create resolved
SendMessageResolved(p) ==
    /\ p \in pending
    /\ pending' = pending \ {p}
    /\ stored' = stored \cup {MessageCreate(p.id, p.fields)}
    /\ out' = (IF Truthy(MapGet(userSockets, p.fields.receiverId))
               THEN << IoToEmit(MapGet(userSockets, p.fields.receiverId),
                                "receive_message", MessageCreate(p.id, p.fields)) >>
               ELSE << >>)
              \o << SocketEmit(p.socket, "message_sent", MessageCreate(p.id, p.fields)) >>
    /\ last' = [ev |-> "send_message:resolved", socket |-> p.socket, data |-> p]
    /\ UNCHANGED <<status, auth, boundAs, userSockets, userActivities, created>>

\* variant: the error is broadcast with io.emit
SendMessageRejected_Broadcast(p) ==
    /\ p \in pending
    /\ pending' = pending \ {p}
    /\ out' = << IoEmit("message_error", "error.message") >>
    /\ last' = [ev |-> "send_message:rejected", socket |-> p.socket, data |-> p]
    /\ UNCHANGED <<status, auth, boundAs, userSockets, userActivities, created, stored>>

\* the send_message handler resumed in its catch block after Message.create rejected
SendMessageRejected(p) ==
    /\ p \in pending
    /\ pending' = pending \ {p}
    /\ out' = << SocketEmit(p.socket, "message_error", "error.message") >>
    /\ last' = [ev |-> "send_message:rejected", socket |-> p.socket, data |-> p]
    /\ UNCHANGED <<status, auth, boundAs, userSockets, userActivities, created, stored>>

\* variant: the disconnecting user is taken from the socket's stored auth
DisconnectedUserId_ByAuth(socket) ==
    IF MapHas(userSockets, auth[socket]) THEN auth[socket] ELSE Undefined

\* the first entry of userSockets, in iteration order, whose socket id is the
\* disconnecting socket's; Undefined when the scan finds none
DisconnectedUserId(socket) ==
    IF \E i \in 1..Len(userSockets) : userSockets[i][2] = socket
    THEN userSockets[CHOOSE i \in 1..Len(userSockets) :
                        /\ userSockets[i][2] = socket
                        /\ \A j \in 1..(i - 1) : userSockets[j][2] # socket][1]
    ELSE Undefined

\* variant: a disconnect drops the suspended sends of its socket
Disconnect_AbortsSends(socket) ==
    /\ status[socket] = "open"
    /\ status' = [status EXCEPT ![socket] = "closed"]
    /\ userSockets' = MapDelete(userSockets, DisconnectedUserId(socket))
    /\ userActivities' = TableDelete(userActivities, DisconnectedUserId(socket))
    /\ out' = IF Truthy(DisconnectedUserId(socket))
              THEN << IoEmit("user_disconnected", DisconnectedUserId(socket)) >>
              ELSE << >>
    /\ last' = [ev |-> "disconnect", socket |-> socket, data |-> Undefined]
    /\ pending' = {p \in pending : p.socket # socket}
    /\ UNCHANGED <<auth, boundAs, created, stored>>

\* variant: user_disconnected is broadcast for the identity in the socket's auth
Disconnect_BroadcastAuth(socket) ==
    /\ status[socket] = "open"
    /\ status' = [status EXCEPT ![socket] = "closed"]
    /\ userSockets' = MapDelete(userSockets, DisconnectedUserId(socket))
    /\ userActivities' = TableDelete(userActivities, DisconnectedUserId(socket))
    /\ out' = IF Truthy(auth[socket])
              THEN << IoEmit("user_disconnected", auth[socket]) >>
              ELSE << >>
    /\ last' = [ev |-> "disconnect", socket |-> socket, data |-> Undefined]
    /\ UNCHANGED <<auth, boundAs, pending, created, stored>>

\* socket.on("disconnect", () => ...)
Disconnect(socket) ==
    /\ status[socket] = "open"
    /\ status' = [status EXCEPT ![socket] = "closed"]
    /\ userSockets' = MapDelete(userSockets, DisconnectedUserId(socket))
    /\ userActivities' = TableDelete(userActivities, DisconnectedUserId(socket))
    /\ out' = IF Truthy(DisconnectedUserId(socket))
              THEN << IoEmit("user_disconnected", DisconnectedUserId(socket)) >>
              ELSE << >>
    /\ last' = [ev |-> "disconnect", socket |-> socket, data |-> Undefined]
    /\ UNCHANGED <<auth, boundAs, pending, created, stored>>

\* ---- inbound payloads ----
ActivityPayloads == [userId : UserIds, activity : Activities]

ProfilePayloads == [clerkId : {"U1"}]

FollowRequestPayloads ==
    [targetUserId : UserIds, requesterId : {"U1"},
     requesterName : {"name"}, requesterImageUrl : {"img"}]

FollowAcceptedPayloads ==
    [requesterId : UserIds, accepterId : {"U1"},
     accepterName : {"name"}, accepterImageUrl : {"img"}]

FollowBackAvailablePayloads ==
    [userId : {"U2"}, userName : {"name"}, userImageUrl : {"img"}]

SendMessagePayloads ==
    [senderId : {"U1"}, receiverId : {"U2"}, content : Contents, replyTo : ReplyRefs]

PlainMessagePayloads == {d \in SendMessagePayloads : d.replyTo = Undefined}

Next ==
    \/ \E s \in SocketIds, h \in UserIds \cup {Undefined} : Connection(s, h)
    \/ \E s \in SocketIds, u \in UserIds : UserConnected(s, u)
    \/ \E s \in SocketIds, d \in ActivityPayloads : UpdateActivity(s, d)
    \/ \E s \in SocketIds, d \in ProfilePayloads : ProfileUpdated(s, d)
    \/ \E s \in SocketIds, d \in FollowRequestPayloads : FollowRequest(s, d)
    \/ \E s \in SocketIds, d \in FollowAcceptedPayloads : FollowAccepted(s, d)
    \/ \E s \in SocketIds, d \in FollowRequestPayloads : FollowBackRequest(s, d)
    \/ \E s \in SocketIds, d \in FollowBackAvailablePayloads : FollowBackAvailable(s, d)
    \/ \E s \in SocketIds, d \in SendMessagePayloads : SendMessage(s, d)
    \/ \E p \in pending : SendMessageResolved(p)
    \/ \E p \in pending : SendMessageRejected(p)
    \/ \E s \in SocketIds, ev \in MissingPayloadEvents, x \in BOOLEAN : MissingPayload(s, ev, x)
    \/ \E s \in SocketIds : Disconnect(s)

Spec == Init /\ [][Next]_vars

\* ---- the router restricted to the handlers of one concern ----
\* socket.handshake.auth is read by follow_back_available only, so the
\* specifications without that handler open every connection with an empty
\* handshake auth.

\* presence: the handlers that write userSockets or userActivities
NextPresence ==
    \/ \E s \in SocketIds : Connection(s, Undefined)
    \/ \E s \in SocketIds, u \in UserIds : UserConnected(s, u)
    \/ \E s \in SocketIds, d \in ActivityPayloads : UpdateActivity(s, d)
    \/ \E s \in SocketIds : Disconnect(s)

SpecPresence == Init /\ [][NextPresence]_vars

\* follow notifications: binding, unbinding and the four directed follow handlers
NextFollow ==
    \/ \E s \in SocketIds, h \in UserIds \cup {Undefined} : Connection(s, h)
    \/ \E s \in SocketIds, u \in UserIds : UserConnected(s, u)
    \/ \E s \in SocketIds, d \in FollowRequestPayloads : FollowRequest(s, d)
    \/ \E s \in SocketIds, d \in FollowAcceptedPayloads : FollowAccepted(s, d)
    \/ \E s \in SocketIds, d \in FollowRequestPayloads : FollowBackRequest(s, d)
    \/ \E s \in SocketIds, d \in FollowBackAvailablePayloads : FollowBackAvailable(s, d)
    \/ \E s \in SocketIds : Disconnect(s)

SpecFollow == Init /\ [][NextFollow]_vars

\* messaging: binding, unbinding and the send_message handler
NextMessage ==
    \/ \E s \in SocketIds : Connection(s, Undefined)
    \/ \E s \in SocketIds, u \in UserIds : UserConnected(s, u)
    \/ \E s \in SocketIds, d \in SendMessagePayloads : SendMessage(s, d)
    \/ \E p \in pending : SendMessageResolved(p)
    \/ \E p \in pending : SendMessageRejected(p)
    \/ \E s \in SocketIds : Disconnect(s)

SpecMessage == Init /\ [][NextMessage]_vars

\* directed delivery: binding, unbinding and the handlers that emit with
\* io.to(...) to a target resolved from the payload (follow_request; the
\* follow_accepted and follow_back_request handlers have the same body), from
\* the sending socket (follow_back_available) and after a storage write
\* (send_message, messages without reply)
NextDirected ==
    \/ \E s \in SocketIds : Connection(s, Undefined)
    \/ \E s \in SocketIds, u \in UserIds : UserConnected(s, u)
    \/ \E s \in SocketIds, d \in FollowRequestPayloads : FollowRequest(s, d)
    \/ \E s \in SocketIds, d \in FollowBackAvailablePayloads : FollowBackAvailable(s, d)
    \/ \E s \in SocketIds, d \in PlainMessagePayloads : SendMessage(s, d)
    \/ \E p \in pending : SendMessageResolved(p)
    \/ \E p \in pending : SendMessageRejected(p)
    \/ \E s \in SocketIds : Disconnect(s)

SpecDirected == Init /\ [][NextDirected]_vars

\* events without payload: binding, unbinding and the handlers that throw
NextMalformed ==
    \/ \E s \in SocketIds : Connection(s, Undefined)
    \/ \E s \in SocketIds, u \in UserIds : UserConnected(s, u)
    \/ \E s \in SocketIds, ev \in MissingPayloadEvents, x \in BOOLEAN : MissingPayload(s, ev, x)
    \/ \E s \in SocketIds : Disconnect(s)

SpecMalformed == Init /\ [][NextMalformed]_vars

\* the identities messages are addressed to
ReceiverIds == {d.receiverId : d \in SendMessagePayloads}

\* message delivery against the receiver's presence: the receiver's binds and
\* any connection's disconnect while sends (messages without reply) are in
\* flight, each send remembering where its receiver was when it was issued
NextReceiver ==
    \/ \E s \in SocketIds : Connection(s, Undefined)
    \/ \E s \in SocketIds, u \in ReceiverIds : UserConnected(s, u)
    \/ \E s \in SocketIds, d \in PlainMessagePayloads : SendMessageTracked(s, d)
    \/ \E p \in pending : SendMessageResolved(p)
    \/ \E p \in pending : SendMessageRejected(p)
    \/ \E s \in SocketIds : Disconnect(s)

SpecReceiver == Init /\ [][NextReceiver]_vars

\* the storage call of send number id returns, with a document or with an error
StorageReturns(id) ==
    \E p \in pending : p.id = id /\ (SendMessageResolved(p) \/ SendMessageRejected(p))

\* the same router, every storage call eventually returning
SpecReceiverFair ==
    SpecReceiver /\ \A id \in 1..MaxSends : WF_vars(StorageReturns(id))

\* ---- observations used by the properties ----
\* the sockets that are connected
Open == {s \in SocketIds : status[s] = "open"}

\* lookup(identity): userSockets.get(userId)
Lookup(u) == MapGet(userSockets, u)

\* the connected sockets an emission reaches
Receivers(e) == IF e.via = "io" THEN Open ELSE {e.room} \cap Open

\* some identity is registered on socket s
Registered(s) == \E i \in 1..Len(userSockets) : userSockets[i][2] = s

\* the positions in out of the emissions of event ev
Emissions(ev) == {i \in 1..Len(out) : out[i].ev = ev}

\* s is open, bound an identity, and another socket has bound that identity since
Superseded(s) ==
    /\ status[s] = "open"
    /\ Truthy(boundAs[s])
    /\ Truthy(Lookup(boundAs[s]))
    /\ Lookup(boundAs[s]) # s

\* s is superseded and no identity is registered on it
Orphaned(s) == Superseded(s) /\ ~Registered(s)

\* ---- properties ----

\* C1: the registry never holds two identities mapped to the same connection,
\* also when one connection emits user_connected twice with different identities.
C1_NoSharedConnection ==
    \A i, j \in 1..Len(userSockets) :
        i # j => userSockets[i][2] # userSockets[j][2]

\* C2 as stated: once a connection has been superseded for its identity, no
\* later event makes the router emit anything that reaches it.
C2_NeverContactedAgain ==
    \A s \in SocketIds :
        (Superseded(s) /\ last.ev # "user_connected")
            => \A i \in 1..Len(out) : s \notin Receivers(out[i])

\* C2: a bind makes lookup(identity) return the binding connection, and a
\* superseded connection on which no identity is registered is sent no directed
\* event (io.to): only broadcasts and the replies to its own events reach it.
C2_SupersededNotAddressed ==
    /\ last.ev = "user_connected" => Lookup(last.data) = last.socket
    /\ \A s \in SocketIds :
          Orphaned(s) => \A i \in 1..Len(out) : out[i].via = "to" => out[i].room # s

\* a directed event addressed to the identity of an orphaned connection has
\* gone to the connection that superseded it
C2_Witness ==
    \E s \in SocketIds :
        /\ Orphaned(s)
        /\ last.ev = "send_message:resolved"
        /\ last.data.fields.receiverId = boundAs[s]
        /\ \E i \in 1..Len(out) : out[i].via = "to" /\ out[i].room = Lookup(boundAs[s])

\* C3: userSockets and userActivities always have the same set of identities as keys.
C3_SameKeys == KeySet(userSockets) = DOMAIN userActivities

\* C4: a message sent with replyTo set is acknowledged and delivered with that
\* same replyTo id.
C4_ReplyToRoundTrip ==
    (last.ev = "send_message:resolved" /\ Truthy(last.data.data.replyTo))
        => \A i \in Emissions("message_sent") \cup Emissions("receive_message") :
              out[i].data.replyTo = last.data.data.replyTo

\* C5: a disconnect of the connection registered for identity u leaves u
\* without registry entry and without activity entry, and broadcasts
\* user_disconnected(u) exactly once.
C5_UnbindRemoves ==
    [][ last'.ev = "disconnect"
          => \A u \in UserIds :
                Lookup(u) = last'.socket
                  => /\ ~MapHas(userSockets', u)
                     /\ u \notin DOMAIN userActivities'
                     /\ Cardinality({i \in 1..Len(out') :
                                       out'[i] = IoEmit("user_disconnected", u)}) = 1 ]_vars

\* C6: a disconnect of connection c leaves every identity that is registered on
\* another connection as it was: same registry entry, same activity entry, and
\* no user_disconnected for it.
C6_UnbindOnlyOwnEntry ==
    [][ last'.ev = "disconnect"
          => \A u \in UserIds :
                (Truthy(Lookup(u)) /\ Lookup(u) # last'.socket)
                  => /\ MapGet(userSockets', u) = Lookup(u)
                     /\ (u \in DOMAIN userActivities
                            => u \in DOMAIN userActivities' /\ userActivities'[u] = userActivities[u])
                     /\ \A i \in 1..Len(out') :
                            ~(out'[i].ev = "user_disconnected" /\ out'[i].data = u) ]_vars

\* the connection that bound u first has disconnected after another connection
\* re-bound u, and u is still registered on the other connection
C6_Witness ==
    /\ last.ev = "disconnect"
    /\ Truthy(boundAs[last.socket])
    /\ Truthy(Lookup(boundAs[last.socket]))
    /\ Lookup(boundAs[last.socket]) # last.socket
    /\ boundAs[last.socket] \in DOMAIN userActivities

\* the identity a follow handler routes by
FollowTarget(l) == IF l.ev = "follow_accepted" THEN l.data.requesterId ELSE l.data.targetUserId

\* C7: follow_request, follow_accepted and follow_back_request emit exactly one
\* event of the same name to the registered connection of the target and reach
\* no other connection; with the target not bound they emit nothing.
C7_DirectedFollow ==
    last.ev \in {"follow_request", "follow_accepted", "follow_back_request"}
        => IF Truthy(Lookup(FollowTarget(last)))
           THEN /\ Len(out) = 1
                /\ out[1].ev = last.ev
                /\ out[1].via = "to"
                /\ out[1].room = Lookup(FollowTarget(last))
                /\ Receivers(out[1]) \subseteq {Lookup(FollowTarget(last))}
           ELSE out = << >>

\* a follow_request from one connection has been delivered to the open
\* connection of its target and has reached no other connection
C7_Witness ==
    /\ last.ev = "follow_request"
    /\ Truthy(Lookup(last.data.targetUserId))
    /\ Lookup(last.data.targetUserId) # last.socket
    /\ Len(out) = 1
    /\ Receivers(out[1]) = {Lookup(last.data.targetUserId)}

\* C8: a send_message whose write succeeds emits exactly one message_sent with
\* the persisted message to the sending connection and, if the receiver is
\* bound, exactly one receive_message with the same message id to the
\* receiver's registered connection; otherwise no receive_message.
C8_SendDelivered ==
    last.ev = "send_message:resolved"
        => /\ Cardinality(Emissions("message_sent")) = 1
           /\ \A i \in Emissions("message_sent") :
                 /\ out[i].via = "socket"
                 /\ out[i].room = last.socket
                 /\ out[i].data \in stored
                 /\ out[i].data._id = last.data.id
                 /\ out[i].data.senderId = last.data.data.senderId
                 /\ out[i].data.receiverId = last.data.data.receiverId
                 /\ out[i].data.content = last.data.data.content
           /\ IF Truthy(Lookup(last.data.data.receiverId))
              THEN /\ Cardinality(Emissions("receive_message")) = 1
                   /\ \A i \in Emissions("receive_message") :
                         /\ out[i].via = "to"
                         /\ out[i].room = Lookup(last.data.data.receiverId)
                         /\ out[i].data._id = last.data.id
              ELSE Emissions("receive_message") = {}

\* a send has resolved while its receiver was registered on an open
\* connection other than the sender's
C8_Witness ==
    /\ last.ev = "send_message:resolved"
    /\ Truthy(Lookup(last.data.data.receiverId))
    /\ Lookup(last.data.data.receiverId) # last.socket
    /\ Lookup(last.data.data.receiverId) \in Open
    /\ Len(out) = 2

\* C9: a send_message whose write fails emits exactly one message_error, to the
\* sending connection, and nothing else; the write is not issued again and the
\* registry and the activity tracker are unchanged.
C9_SendFailed ==
    [][ last'.ev = "send_message:rejected"
          => /\ Len(out') = 1
             /\ out'[1].ev = "message_error"
             /\ out'[1].via = "socket"
             /\ out'[1].room = last'.socket
             /\ created' = created
             /\ stored' = stored
             /\ pending' = pending \ {last'.data}
             /\ last'.data \in pending
             /\ userSockets' = userSockets
             /\ userActivities' = userActivities ]_vars

\* a write has failed for an open sending connection while an identity was registered
C9_Witness ==
    /\ last.ev = "send_message:rejected"
    /\ last.socket \in Open
    /\ userSockets # << >>
    /\ Len(out) = 1

\* C10: follow_back_available emits exactly one event, to the connection
\* registered for the identity the sending connection bound as, and nothing if
\* the sending connection never bound or that identity is not registered.
C10_SelfAddressed ==
    last.ev = "follow_back_available"
        => IF Truthy(boundAs[last.socket]) /\ Truthy(Lookup(boundAs[last.socket]))
           THEN /\ Len(out) = 1
                /\ out[1].ev = "follow_back_available"
                /\ out[1].via = "to"
                /\ out[1].room = Lookup(boundAs[last.socket])
           ELSE out = << >>

\* C11: user_connected(identity) from connection c emits, in this order, a
\* user_connected(identity) broadcast that reaches every open connection, c
\* included, a users_online reply to c alone that lists the identities of the
\* registry after the bind, and an activities broadcast that carries the
\* identity -> label mapping after the bind.
C11_BindEmissions ==
    last.ev = "user_connected"
        => /\ Len(out) = 3
           /\ out[1] = IoEmit("user_connected", last.data)
           /\ Receivers(out[1]) = Open
           /\ last.socket \in Receivers(out[1])
           /\ out[2].ev = "users_online"
           /\ out[2].via = "socket"
           /\ Receivers(out[2]) = {last.socket}
           /\ {out[2].data[i] : i \in 1..Len(out[2].data)} = KeySet(userSockets)
           /\ \E i \in 1..Len(out[2].data) : out[2].data[i] = last.data
           /\ out[3].ev = "activities"
           /\ out[3].via = "io"
           /\ Receivers(out[3]) = Open
           /\ out[3].data = userActivities
           /\ last.data \in DOMAIN out[3].data

\* a connection has bound an identity while another identity was registered
\* on another open connection
C11_Witness ==
    /\ last.ev = "user_connected"
    /\ Len(userSockets) = 2
    /\ Cardinality(Open) = 2
    /\ Len(out) = 3
    /\ Len(out[2].data) = 2

\* C12: a disconnect of a connection on which no identity is registered emits
\* no user_disconnected and leaves the registry and the activity tracker as
\* they were.
C12_UnboundDisconnectSilent ==
    [][ (last'.ev = "disconnect" /\ ~Registered(last'.socket))
          => /\ out' = << >>
             /\ userSockets' = userSockets
             /\ userActivities' = userActivities ]_vars

\* a connection whose identity was re-bound on another connection has
\* disconnected without any emission
C12_Witness ==
    /\ last.ev = "disconnect"
    /\ out = << >>
    /\ Truthy(boundAs[last.socket])
    /\ Truthy(Lookup(boundAs[last.socket]))
    /\ Lookup(boundAs[last.socket]) # last.socket

\* C13: an update_activity that repeats the update_activity handled just
\* before it (same identity, same label) emits its own activity_updated
\* broadcast to all connections, as the first did, and leaves the tracker as the
\* first left it.
C13_RepeatedActivity ==
    [][ (last'.ev = "update_activity" /\ last'.repeat)
          => /\ Len(out) = 1
             /\ out[1] = IoEmit("activity_updated", last.data)
             /\ Len(out') = 1
             /\ out'[1] = IoEmit("activity_updated", last'.data)
             /\ userActivities' = userActivities
             /\ userActivities'[last'.data.userId] = last'.data.activity ]_vars

\* the same update_activity ("Idle") has been handled twice in a row and the
\* second one was broadcast while two connections were open
C13_Witness ==
    /\ last.ev = "update_activity"
    /\ last.repeat
    /\ last.data.activity = "Idle"
    /\ Len(out) = 1
    /\ out[1].via = "io"
    /\ Cardinality(Receivers(out[1])) = 2

\* C18: every user_connected(identity) leaves the identity's label at "Idle",
\* whatever it was before, and the activities snapshot of that bind shows
\* "Idle" for it.
C18_BindResetsActivity ==
    last.ev = "user_connected"
        => /\ last.data \in DOMAIN userActivities
           /\ userActivities[last.data] = "Idle"
           /\ \A i \in Emissions("activities") :
                 /\ last.data \in DOMAIN out[i].data
                 /\ out[i].data[last.data] = "Idle"
           /\ Emissions("activities") # {}

\* an identity whose label update_activity had set to "Playing" has been
\* re-bound, after another connection had bound it
C18_Witness ==
    /\ last.ev = "user_connected"
    /\ last.before = "Playing"
    /\ \E s \in SocketIds : s # last.socket /\ boundAs[s] = last.data
    /\ userActivities[last.data] = "Idle"

\* C15: every identity in the registry maps to a connection that is open: no
\* registry entry survives the disconnect of its connection.
C15_RegistryOnlyOpen ==
    \A i \in 1..Len(userSockets) : userSockets[i][2] \in Open

\* C14: no handler for an event of connection c runs while a send_message of c
\* is still awaiting storage: when a send of c is in flight, the last event
\* handled for c is the issue of that very send.
C14_HandledToCompletion ==
    \A p \in pending :
        last.socket = p.socket => (last.ev = "send_message" /\ created = p.id)

\* C19: receive_message goes to the connection the receiver is registered on
\* when the write completes, whatever it was when the send was issued: to that
\* connection if there is one, to nobody otherwise.
C19_ReceiverAtCompletion ==
    last.ev = "send_message:resolved"
        => /\ Truthy(Lookup(last.data.fields.receiverId))
                => \E i \in Emissions("receive_message") :
                      out[i].room = Lookup(last.data.fields.receiverId)
           /\ ~Truthy(Lookup(last.data.fields.receiverId))
                => Emissions("receive_message") = {}
           /\ \A i \in Emissions("receive_message") :
                 /\ out[i].via = "to"
                 /\ Registered(out[i].room)
                 /\ last.data.atIssue # Lookup(last.data.fields.receiverId)
                      => out[i].room # last.data.atIssue

\* the receiver was re-bound on another connection while the write was in
\* flight and the message has gone to the new connection
C19_Witness ==
    /\ last.ev = "send_message:resolved"
    /\ Truthy(last.data.atIssue)
    /\ Truthy(Lookup(last.data.fields.receiverId))
    /\ last.data.atIssue # Lookup(last.data.fields.receiverId)
    /\ status[last.data.atIssue] = "open"
    /\ Emissions("receive_message") # {}

\* C20: the persisted message carries the senderId of the payload and the
\* message_sent acknowledgment goes to the connection that issued the event,
\* whatever identity that connection is bound as and whichever connection is
\* registered for senderId.
C20_SenderFromPayload ==
    last.ev = "send_message:resolved"
        => /\ \E m \in stored : m._id = last.data.id /\ m.senderId = last.data.data.senderId
           /\ \A m \in stored : m._id = last.data.id => m.senderId = last.data.data.senderId
           /\ \A i \in Emissions("message_sent") :
                 /\ Receivers(out[i]) \subseteq {last.socket}
                 /\ out[i].room = last.data.socket
                 /\ out[i].data.senderId = last.data.data.senderId
           /\ Emissions("message_sent") # {}

\* a connection bound as another identity than the payload's senderId has
\* been acknowledged while senderId is registered on another open connection
C20_Witness ==
    /\ last.ev = "send_message:resolved"
    /\ boundAs[last.socket] # last.data.data.senderId
    /\ Truthy(Lookup(last.data.data.senderId))
    /\ Lookup(last.data.data.senderId) # last.socket
    /\ Lookup(last.data.data.senderId) \in Open
    /\ last.socket \in Open

\* send number id is suspended on its storage write
InFlight(id) == \E p \in pending : p.id = id

\* the last step completed send number id with one outcome event, message_sent
\* or message_error, emitted to the connection that issued it
Outcome(id) ==
    /\ last.ev \in {"send_message:resolved", "send_message:rejected"}
    /\ last.data.id = id
    /\ ~InFlight(id)
    /\ Cardinality(Emissions("message_sent") \cup Emissions("message_error")) = 1
    /\ \A i \in Emissions("message_sent") \cup Emissions("message_error") :
          out[i].via = "socket" /\ out[i].room = last.data.socket

\* C16: provided the storage call returns, every send_message that is issued
\* reaches exactly one outcome event to the issuing connection, whatever
\* disconnects or re-binds meanwhile, and a send that has left flight never
\* completes again.
C16_SendReachesOutcome ==
    /\ \A id \in 1..MaxSends : InFlight(id) ~> Outcome(id)
    /\ [][ \A id \in 1..MaxSends :
              /\ (InFlight(id) /\ ~InFlight(id)') => Outcome(id)'
              /\ (~InFlight(id) /\ InFlight(id)') => (last'.ev = "send_message" /\ created' = id /\ created = id - 1) ]_vars

\* a send has completed after its issuing connection disconnected and its
\* receiver's registration changed while it was in flight
C16_Witness ==
    /\ last.ev \in {"send_message:resolved", "send_message:rejected"}
    /\ status[last.data.socket] = "closed"
    /\ last.data.atIssue # Lookup(last.data.fields.receiverId)
    /\ Len(out) >= 1

\* C17: an event that arrives without its payload is dropped: no exception
\* leaves the handler and the sending connection stays open.
C17_MalformedDropped ==
    (last.ev \in MissingPayloadEvents /\ last.data = Undefined)
        => /\ \A i \in 1..Len(out) : out[i].via # "throw"
           /\ last.socket \in Open
====
